---- MODULE Spec2Model ----
(***************************************************************************)
(* Model of korman/exporter/material.py: the _GLTexture adapter (scoped    *)
(* OpenGL texture activation and level readback) and the MaterialConverter *)
(* (texture-slot walk, bitmap dedup cache, image bake).                    *)
(***************************************************************************)
EXTENDS Integers, Sequences, FiniteSets, TLC

\* ------------------------------------------------------------------ bounds
\* with-blocks entered on one _GLTexture when the class is used by itself
MaxScopes == 2
\* generate_mipmap calls within one with-block then
MaxGenerate == 2
\* export_material calls made in one MaterialConverter session
MaxCalls == 2
\* texture slots of one material
MaxSlots == 2
\* texture slots of all the materials of one session together
MaxSessionSlots == 2
\* longest image name drawn when the name normalisation is checked alone
MaxNameLen == 3
\* largest image dimension drawn when the size rounding is checked alone
MaxDim == 12
\* most pixels of a level drawn when the level readback is checked alone
MaxPixels == 2

\* characters of the image names, image sizes and byte values drawn when the
\* pure computations are checked alone
NameChars == {"a", "b", "."}
DimSamples == (1..MaxDim) \cup {256, 384}
ByteSamples == {10, 20, 30}
PixelSamples == {<<r, 20, 30, a>> : r \in ByteSamples, a \in ByteSamples}

\* ------------------------------------------------------- Python helpers
\* range(a, b)
PyRange(a, b) == [k \in 1..(IF b > a THEN b - a ELSE 0) |-> a + k - 1]

\* s[lo:hi] for 0 <= lo (indices are 0-based, hi is exclusive and clipped)
PySlice(s, lo, hi) ==
    LET h == IF hi > Len(s) THEN Len(s) ELSE hi
    IN  IF lo >= h THEN <<>> ELSE SubSeq(s, lo + 1, h)

\* s[:n], where a negative n counts from the end
PySliceTo(s, n) ==
    IF n >= 0 THEN PySlice(s, 0, n)
    ELSE PySlice(s, 0, IF Len(s) + n > 0 THEN Len(s) + n ELSE 0)

\* s.find(c): the 0-based index of the first c in s, -1 when there is none
PyFind(s, c) ==
    IF \E k \in 1..Len(s) : s[k] = c
    THEN (CHOOSE k \in 1..Len(s) : s[k] = c /\ \A j \in 1..(k - 1) : s[j] # c) - 1
    ELSE -1

RECURSIVE Pow2(_)
Pow2(n) == IF n <= 0 THEN 1 ELSE 2 * Pow2(n - 1)

\* ------------------------------------------------------------ the inputs
\* The host's images: name (a string, as its characters) and pixel size.
ImageTable == <<
    [name |-> <<"a", "b", ".", "1">>, size |-> <<2, 2>>],
    [name |-> <<"a", "b">>,           size |-> <<1, 1>>],
    [name |-> <<"a", "b", "c">>,      size |-> <<3, 2>>] >>

Images == DOMAIN ImageTable

\* texture.image is None
NoImage == 0

\* The image the host may have on the GPU before the session (bindcode # 0)
HostLoaded == CHOOSE i \in Images : ImageTable[i].size = <<2, 2>>

\* The OpenGL texture name image i gets from gl_load; HostTex is a texture
\* of the host application; 0 is OpenGL's "no texture".
TexOf(i) == i
HostTex == Len(ImageTable) + 1
TexNames == 0..HostTex

\* Blender textures: the type tag, the bound image and the flags read here.
Tex(type, image, mip, alpha, calc) ==
    [type |-> type, image |-> image, use_mipmap |-> mip, use_alpha |-> alpha,
     use_calculate_alpha |-> calc]

Textures ==
    {Tex("NONE", NoImage, FALSE, FALSE, FALSE),
     Tex("CLOUDS", NoImage, FALSE, FALSE, FALSE),
     Tex("IMAGE", NoImage, FALSE, FALSE, FALSE)}
    \cup {Tex("IMAGE", i, m, FALSE, FALSE) : i \in Images, m \in BOOLEAN}
    \cup {Tex("IMAGE", HostLoaded, m, a, c) : m \in BOOLEAN, a \in BOOLEAN, c \in BOOLEAN}

\* The host scenes a session is run on. A scene has the textures its
\* materials' slots take, the names of the UV channels of the mesh of the
\* exported object (bo.data.tessface_uv_textures) and the UV-layer names its
\* slots take ("" is a slot with no UV layer chosen).
Scenes ==
    {[textures |-> {t \in Textures : ~t.use_alpha /\ ~t.use_calculate_alpha},
      uv |-> <<>>, uv_layers |-> {""}],
     [textures |-> {t \in Textures : t.type = "IMAGE" /\ t.image = HostLoaded},
      uv |-> <<>>, uv_layers |-> {""}],
     [textures |-> {Tex("NONE", NoImage, FALSE, FALSE, FALSE),
                    Tex("IMAGE", HostLoaded, FALSE, FALSE, FALSE)},
      uv |-> <<"u", "v", "v">>, uv_layers |-> {"v", "w"}],
     [textures |-> {Tex("NONE", NoImage, FALSE, FALSE, FALSE),
                    Tex("IMAGE", HostLoaded, FALSE, FALSE, FALSE)},
      uv |-> <<>>, uv_layers |-> {"v"}]}

NoScene == [textures |-> {}, uv |-> <<>>, uv_layers |-> {}]

\* bm.texture_slots entries: None, or a slot with its use flag, its texture
\* and its uv_layer.
NullSlot ==
    [null |-> TRUE, use |-> FALSE, texture |-> Tex("NONE", NoImage, FALSE, FALSE, FALSE),
     uv_layer |-> ""]

\* The slots the materials of a scene can have
SlotsOf(sc) ==
    {NullSlot}
    \cup {[null |-> FALSE, use |-> FALSE,
           texture |-> Tex("NONE", NoImage, FALSE, FALSE, FALSE), uv_layer |-> ""]}
    \cup {[null |-> FALSE, use |-> TRUE, texture |-> t, uv_layer |-> u] :
              t \in sc.textures, u \in sc.uv_layers}

Slots == UNION {SlotsOf(sc) : sc \in Scenes}

RECURSIVE SeqsUpTo(_, _)
SeqsUpTo(S, n) ==
    IF n = 0 THEN {<<>>}
    ELSE LET shorter == SeqsUpTo(S, n - 1)
         IN  shorter \cup {Append(s, x) : s \in {t \in shorter : Len(t) = n - 1}, x \in S}

\* The slot lists a material can have.
SlotLists == SeqsUpTo(Slots, MaxSlots)

\* ------------------------------------------------- the pure computations
\* math.log(x, 2) for an integer x >= 1, a real number: kept exactly, as the
\* integer part of the logarithm and the remainder x - 2^int (0 <= rem <
\* 2^int) that determines its fractional part.
MathLog2(x) ==
    LET e == CHOOSE k \in 0..x : Pow2(k) <= x /\ x < Pow2(k + 1)
    IN  [int |-> e, rem |-> x - Pow2(e)]

\* pow(2, l) for such a logarithm l: a real number, here as <<integer part,
\* has a fractional part>>; 2^(int + frac) = 2^int + rem is a whole number.
MathPow2(l) == [whole |-> Pow2(l.int) + l.rem, half_or_more |-> FALSE]

\* int(round(r)) of a real kept as MathPow2 keeps it
IntRound(r) == IF r.half_or_more THEN r.whole + 1 ELSE r.whole

\* _TEMP_export_image: eWidth / eHeight from oWidth / oHeight
ExportDim(o) == IntRound(MathPow2(MathLog2(o)))

\* _TEMP_export_image: the size the plMipmap gets, and whether image.scale
\* is called
ExportSize(size) ==
    LET oWidth  == size[1]
        oHeight == size[2]
        eWidth  == ExportDim(oWidth)
        eHeight == ExportDim(oHeight)
    IN  [width |-> eWidth, height |-> eHeight,
         resize |-> (eWidth # oWidth) \/ (eHeight # oHeight)]

\* _export_texture_type_image: the name the bitmap is cached under
BitmapName(imageName, use_mipmap) ==
    LET name == PySliceTo(imageName, PyFind(imageName, "."))
    IN  IF use_mipmap THEN name \o <<".", "d", "d", "s">>
        ELSE name \o <<".", "b", "m", "p">>

\* _GLTexture.get_level_data after glGetTexImage filled buf (size bytes):
\* the calc_alpha loop, then bytes(buf). exc is the exception raised, if any.
RECURSIVE AlphaLoop(_, _)
AlphaLoop(buf, idxs) ==
    IF idxs = <<>> THEN [exc |-> "", data |-> buf]
    ELSE LET base == Head(idxs) * 4
             rgb  == PySlice(buf, base, base + 2)
         IN  IF Len(rgb) # 3 THEN [exc |-> "ValueError", data |-> <<>>]
             ELSE IF base + 3 >= Len(buf) THEN [exc |-> "IndexError", data |-> <<>>]
             ELSE AlphaLoop([buf EXCEPT ![base + 4] = (rgb[1] + rgb[2] + rgb[3]) \div 3],
                            Tail(idxs))

GetLevelData(buf, size, calc_alpha) ==
    IF calc_alpha THEN AlphaLoop(buf, PyRange(size, 4))
    ELSE [exc |-> "", data |-> buf]

\* What the attributes of a MaterialConverter are (hasattr / attribute lookup).
ConverterAttrs ==
    {"_exporter", "_hsbitmaps", "export_material", "_export_texture_slots",
     "_export_texture_type_image", "_TEMP_export_image",
     "_export_texture_type_none", "_mgr", "_propagate_material_settings"}

HasAttr(attr) == attr \in ConverterAttrs

\* texture.type.lower()
Lower(type) ==
    CASE type = "IMAGE" -> "image"
      [] type = "NONE" -> "none"
      [] type = "CLOUDS" -> "clouds"
      [] OTHER -> type

\* "_export_texture_type_{}".format(texture.type.lower())
ExportFn(texture) == "_export_texture_type_" \o Lower(texture.type)

\* _TEMP_export_image, "Basic things": the level hint, the compression and
\* the DXT variant the plMipmap is constructed with
LevelHint(texture) == IF texture.use_mipmap THEN 0 ELSE 1

Compression(texture) ==
    IF texture.use_mipmap THEN "kDirectXCompression" ELSE "kUncompressed"

\* the DXT variant decided by use_alpha alone
DxtLevel_AlphaOnly(texture) ==
    IF texture.use_alpha THEN "kDXT5" ELSE "kDXT1"

DxtLevel(texture) ==
    IF texture.use_alpha \/ texture.use_calculate_alpha THEN "kDXT5" ELSE "kDXT1"

\* stuff_func: the method of the plMipmap the levels are handed to
StuffFunc(compression) ==
    IF compression = "kDirectXCompression" THEN "CompressImage" ELSE "setLevel"

\* plMipmap(...).numLevels for the level hint given: the hint itself, or for
\* hint 0 the full chain down to 1x1.
NumLevels(hint, width, height) ==
    IF hint > 0 THEN hint
    ELSE 1 + MathLog2(IF width > height THEN width ELSE height).int

\* The texture image OpenGL holds for an image at a mip level: its width and
\* height (halved per level, at least 1) and its RGBA bytes.
LevelDim(d, level) == IF d \div Pow2(level) >= 1 THEN d \div Pow2(level) ELSE 1

Pixel == <<10, 20, 30, 255>>

TexImage(size, level) ==
    LET n == LevelDim(size[1], level) * LevelDim(size[2], level)
    IN  [k \in 1..(n * 4) |-> Pixel[((k - 1) % 4) + 1]]

\* ------------------------------------------------------------- the state
VARIABLES
    images,     \* per image: bindcode (0 = no GPU binding) and size
    boundTex,   \* GL_TEXTURE_BINDING_2D
    texParam,   \* GL_GENERATE_MIPMAP of each texture object
    glt,        \* the live _GLTexture adapter (its attributes), or <<>>
    hsbitmaps,  \* MaterialConverter._hsbitmaps: name -> bitmap
    mgr,        \* objects registered with the asset manager
    bitmaps,    \* the plBitmap objects created so far
    layers,     \* the plLayer objects created so far
    mats,       \* the hsGMaterial objects created so far
    pc,         \* position in export_material
    cur,        \* the frame of the running export_material call
    result,     \* how the last export_material ended: "returned" or the exception
    calls,      \* export_material calls started
    scope,      \* GL state seen when the current with-block was entered
    trace,      \* whether the running slot used the GPU; the bakes of the session;
                \* the calls the last bake made; the bindcodes before the session
    fn,         \* argument and result when a pure function is checked alone
    scene,      \* the host scene of the session: the textures of its materials'
                \* slots and the UV channels of the mesh of the exported object
    client      \* when _GLTexture is used by itself: the with-blocks entered on
                \* the adapter and the generate_mipmap calls of the current one

vars == <<images, boundTex, texParam, glt, hsbitmaps, mgr, bitmaps, layers,
          mats, pc, cur, result, calls, scope, trace, fn, scene, client>>

\* ------------------------------------------------------------ the objects
NoAdapter ==
    [live |-> FALSE, image |-> NoImage, ownit |-> FALSE, blimg |-> NoImage,
     previous_texture |-> 0, changed_state |-> FALSE, mipmap_state |-> <<>>]

NoFrame ==
    [hsgmat |-> 0, si |-> 0, layer |-> 0, name |-> <<>>,
     mipmap |-> 0, level |-> 0, exc |-> "", osize |-> <<0, 0>>, scaled |-> FALSE]

NoScope == [entered |-> FALSE, image |-> NoImage, P |-> 0, M |-> 0, MP |-> 0]

NoTrace ==
    [gpu |-> FALSE, bakes |-> <<>>, log |-> <<>>, host |-> [i \in Images |-> 0]]

\* A call the bake made, as it is kept in trace.log
Call(op, a, b) == [op |-> op, a |-> a, b |-> b]

Flag(b) == IF b THEN 1 ELSE 0

NoFn == [op |-> "", arg |-> <<>>, out |-> <<>>]

NoClient == [scopes |-> 0, gens |-> 0]

\* bm.texture_slots of the running call; the slot the loop of
\* _export_texture_slots is at, and its texture.
CurSlots == mats[cur.hsgmat].bm
Slot == CurSlots[cur.si]
Texture == Slot.texture
Image == Texture.image

\* "{}_{}".format(bm.name, slot.name)
LayerName == <<mats[cur.hsgmat].name, "slot" \o ToString(cur.si)>>

\* name -> bitmap dictionary operations
DictHas(d, k) == k \in DOMAIN d
DictPut(d, k, v) == [x \in DOMAIN d \cup {k} |-> IF x = k THEN v ELSE d[x]]

\* self._mgr.add_object / AddObject: the registry learns the object
Register(kind, id) == mgr \cup {[kind |-> kind, id |-> id]}

\* plLayer(name) with _propagate_material_settings applied: no texture yet,
\* UVWSrc at its default. slot is the texture of the slot the layer is made
\* for, baked whether that slot ran _TEMP_export_image.
NewLayer(mat, name, texture) ==
    [mat |-> mat, name |-> name, texture |-> 0, UVWSrc |-> 0, slot |-> texture,
     baked |-> FALSE]

\* the last channel with that name instead of the first (a loop without break)
FirstChannel_NoBreak(chans, uv_layer, default) ==
    IF \E k \in DOMAIN chans : chans[k] = uv_layer
    THEN (CHOOSE k \in DOMAIN chans :
              chans[k] = uv_layer /\ \A j \in (k + 1)..Len(chans) : chans[j] # uv_layer) - 1
    ELSE default

\* _export_texture_slots, "UVW Channel": the index of the first channel
\* with the slot's uv_layer as its name, or the value UVWSrc had
FirstChannel(chans, uv_layer, default) ==
    IF \E k \in DOMAIN chans : chans[k] = uv_layer
    THEN (CHOOSE k \in DOMAIN chans :
              chans[k] = uv_layer /\ \A j \in 1..(k - 1) : chans[j] # uv_layer) - 1
    ELSE default

\* The layer _export_texture_slots makes for the slot it is at, up to the
\* dispatch on the texture type
SlotLayer ==
    LET layer == NewLayer(cur.hsgmat, LayerName, Texture)
    IN  [layer EXCEPT !.UVWSrc = FirstChannel(scene.uv, Slot.uv_layer, layer.UVWSrc)]

\* hsgmat.addLayer(layer.key)
AddLayer(m, l) == [mats EXCEPT ![m].layers = Append(@, l)]

\* ----------------------------------------------------------- Init
Init ==
    /\ \E loaded \in {{}, {HostLoaded}} :
           /\ images = [i \in Images |->
                           [bindcode |-> IF i \in loaded THEN TexOf(i) ELSE 0,
                            size |-> ImageTable[i].size]]
           /\ \E m \in {0, 1} :
                  /\ loaded = {} => m = 0
                  /\ texParam = [t \in TexNames |->
                                    IF \E i \in loaded : t = TexOf(i) THEN m ELSE 0]
    /\ boundTex = HostTex
    /\ glt = NoAdapter
    /\ hsbitmaps = <<>>
    /\ mgr = {}
    /\ bitmaps = <<>>
    /\ layers = <<>>
    /\ mats = <<>>
    /\ pc = "idle"
    /\ cur = NoFrame
    /\ result = ""
    /\ calls = 0
    /\ scope = NoScope
    /\ trace = [NoTrace EXCEPT !.host = [i \in Images |-> images[i].bindcode]]
    /\ fn = NoFn
    /\ scene \in Scenes
    /\ client = NoClient

\* ------------------------------------------------ MaterialConverter
\* Slots of the materials exported so far
RECURSIVE SessionSlots(_)
SessionSlots(m) == IF m = 0 THEN 0 ELSE Len(mats[m].bm) + SessionSlots(m - 1)

\* export_material of a material with some slot list, up to the call of
\* _export_texture_slots
ExportMaterial ==
    /\ pc = "idle"
    /\ calls < MaxCalls
    /\ \E n \in 0..MaxSlots :
           /\ SessionSlots(Len(mats)) + n <= MaxSessionSlots
           /\ \E slots \in [1..n -> SlotsOf(scene)] :
                  mats' = Append(mats, [name |-> calls + 1, layers |-> <<>>, bm |-> slots])
    /\ cur' = [NoFrame EXCEPT !.hsgmat = Len(mats) + 1, !.si = 1]
    /\ calls' = calls + 1
    /\ mgr' = Register("hsGMaterial", Len(mats) + 1)
    /\ pc' = "slots"
    /\ result' = ""
    /\ UNCHANGED <<images, boundTex, texParam, glt, hsbitmaps, bitmaps, layers,
                   scope, trace, fn, scene, client>>

\* _export_texture_slots: a slot that is None or not in use is skipped
SlotSkip ==
    /\ pc = "slots"
    /\ cur.si <= Len(CurSlots)
    /\ Slot.null \/ ~Slot.use
    /\ cur' = [cur EXCEPT !.si = @ + 1]
    /\ UNCHANGED <<images, boundTex, texParam, glt, hsbitmaps, mgr, bitmaps,
                   layers, mats, pc, result, calls, scope, trace, fn, scene, client>>

\* The loop body is entered for a slot in use.
InUse ==
    /\ pc = "slots"
    /\ cur.si <= Len(CurSlots)
    /\ ~Slot.null
    /\ Slot.use

\* _export_texture_slots adding the layer to the material before it looks
\* for the export method
SlotUnsupported_LayerAdded ==
    /\ InUse
    /\ ~HasAttr(ExportFn(Texture))
    /\ layers' = Append(layers, SlotLayer)
    /\ mgr' = Register("plLayer", Len(layers) + 1)
    /\ mats' = AddLayer(cur.hsgmat, Len(layers) + 1)
    /\ result' = "UnsupportedTextureError"
    /\ pc' = "idle"
    /\ cur' = cur
    /\ trace' = [trace EXCEPT !.gpu = FALSE]
    /\ UNCHANGED <<images, boundTex, texParam, glt, hsbitmaps, bitmaps,
                   calls, scope, fn, scene, client>>

\* _export_texture_slots: the texture type has no _export_texture_type_ method
SlotUnsupported ==
    /\ InUse
    /\ ~HasAttr(ExportFn(Texture))
    /\ layers' = Append(layers, SlotLayer)
    /\ mgr' = Register("plLayer", Len(layers) + 1)
    /\ result' = "UnsupportedTextureError"
    /\ pc' = "idle"
    /\ cur' = cur
    /\ trace' = [trace EXCEPT !.gpu = FALSE]
    /\ UNCHANGED <<images, boundTex, texParam, glt, hsbitmaps, bitmaps, mats,
                   calls, scope, fn, scene, client>>

\* _export_texture_slots with _export_texture_type_none
SlotNone ==
    /\ InUse
    /\ HasAttr(ExportFn(Texture))
    /\ ExportFn(Texture) = "_export_texture_type_none"
    /\ layers' = Append(layers, SlotLayer)
    /\ mgr' = Register("plLayer", Len(layers) + 1)
    /\ mats' = AddLayer(cur.hsgmat, Len(layers) + 1)
    /\ cur' = [cur EXCEPT !.si = @ + 1]
    /\ trace' = [trace EXCEPT !.gpu = FALSE]
    /\ UNCHANGED <<images, boundTex, texParam, glt, hsbitmaps, bitmaps, pc,
                   result, calls, scope, fn, scene, client>>

\* _export_texture_type_image for a texture with no image: the placeholder
\* is asked of self.add_object, then stored under the local `name`, which
\* this branch never assigned
SlotImageNoImage ==
    /\ InUse
    /\ HasAttr(ExportFn(Texture))
    /\ ExportFn(Texture) = "_export_texture_type_image"
    /\ Image = NoImage
    /\ layers' = Append(layers, SlotLayer)
    /\ IF HasAttr("add_object")
       THEN /\ bitmaps' = Append(bitmaps,
                   [kind |-> "plDynamicTextMap", name |-> <<>>, width |-> 0,
                    height |-> 0, levelHint |-> 0, numLevels |-> 0, compType |-> "", dxt |-> "",
                    levels |-> <<>>])
            /\ mgr' = Register("plLayer", Len(layers) + 1)
                         \cup {[kind |-> "plBitmap", id |-> Len(bitmaps) + 1]}
            /\ result' = "UnboundLocalError"
       ELSE /\ bitmaps' = bitmaps
            /\ mgr' = Register("plLayer", Len(layers) + 1)
            /\ result' = "AttributeError"
    /\ pc' = "idle"
    /\ cur' = cur
    /\ trace' = [trace EXCEPT !.gpu = FALSE]
    /\ UNCHANGED <<images, boundTex, texParam, glt, hsbitmaps, mats, calls, scope, fn, scene, client>>

\* The dedup key of the slot's image
SlotBitmapName == BitmapName(ImageTable[Image].name, Texture.use_mipmap)

\* _export_texture_type_image: the name is in _hsbitmaps already
SlotImageCached ==
    /\ InUse
    /\ HasAttr(ExportFn(Texture))
    /\ ExportFn(Texture) = "_export_texture_type_image"
    /\ Image # NoImage
    /\ DictHas(hsbitmaps, SlotBitmapName)
    /\ layers' = Append(layers,
           [SlotLayer EXCEPT
               !.texture = hsbitmaps[SlotBitmapName]])
    /\ mgr' = Register("plLayer", Len(layers) + 1)
    /\ mats' = AddLayer(cur.hsgmat, Len(layers) + 1)
    /\ cur' = [cur EXCEPT !.si = @ + 1]
    /\ trace' = [trace EXCEPT !.gpu = FALSE]
    /\ UNCHANGED <<images, boundTex, texParam, glt, hsbitmaps, bitmaps, pc,
                   result, calls, scope, fn, scene, client>>

\* _export_texture_type_image calls _TEMP_export_image, which sizes the
\* image, creates the plMipmap and registers it; next is _GLTexture(image)
SlotImageBake ==
    /\ InUse
    /\ HasAttr(ExportFn(Texture))
    /\ ExportFn(Texture) = "_export_texture_type_image"
    /\ Image # NoImage
    /\ ~DictHas(hsbitmaps, SlotBitmapName)
    /\ LET oWidth  == images[Image].size[1]
           oHeight == images[Image].size[2]
           eWidth  == ExportSize(images[Image].size).width
           eHeight == ExportSize(images[Image].size).height
           resize  == ExportSize(images[Image].size).resize
           levelHint   == LevelHint(Texture)
           compression == Compression(Texture)
           dxt         == DxtLevel(Texture)
       IN  /\ images' = IF resize
                        THEN [images EXCEPT ![Image].size = <<eWidth, eHeight>>]
                        ELSE images
           /\ bitmaps' = Append(bitmaps,
                  [kind |-> "plMipmap", name |-> SlotBitmapName, width |-> eWidth,
                   height |-> eHeight, levelHint |-> levelHint,
                   numLevels |-> NumLevels(levelHint, eWidth, eHeight),
                   compType |-> compression, dxt |-> dxt, levels |-> <<>>])
           /\ cur' = [cur EXCEPT !.layer = Len(layers) + 1, !.name = SlotBitmapName,
                                 !.mipmap = Len(bitmaps) + 1, !.level = 0,
                                 !.osize = <<oWidth, oHeight>>, !.scaled = resize]
    /\ layers' = Append(layers,
           [SlotLayer EXCEPT !.baked = TRUE])
    /\ mgr' = Register("plLayer", Len(layers) + 1)
                 \cup {[kind |-> "plBitmap", id |-> Len(bitmaps) + 1]}
    /\ trace' = [trace EXCEPT
                     !.gpu = FALSE,
                     !.bakes = Append(@,
                         [image |-> Image, use_mipmap |-> Texture.use_mipmap,
                          texture |-> Texture, bitmap |-> Len(bitmaps) + 1,
                          layer |-> Len(layers) + 1, bound |-> boundTex,
                          calc |-> <<>>, done |-> FALSE]),
                     !.log = <<>>]
    /\ pc' = "gl_init"
    /\ UNCHANGED <<boundTex, texParam, glt, hsbitmaps, mats, result, calls, scope, fn, scene, client>>

\* ------------------------------------------------------------ _GLTexture
\* The image the bake is about, and its texture object
BakeImage == Image
BakeTex == images[BakeImage].bindcode

\* _GLTexture.__init__ when no gl_load is needed or gl_load returns 0.
\* gl_load creates the texture object (GL_GENERATE_MIPMAP off) and leaves it
\* bound.
GLInit ==
    /\ pc = "gl_init"
    /\ LET ownit == (images[BakeImage].bindcode = 0)
       IN  /\ glt' = [NoAdapter EXCEPT !.live = TRUE, !.image = BakeImage,
                                       !.ownit = ownit, !.blimg = BakeImage]
           /\ IF ownit
              THEN /\ images' = [images EXCEPT ![BakeImage].bindcode = TexOf(BakeImage)]
                   /\ boundTex' = TexOf(BakeImage)
                   /\ texParam' = [texParam EXCEPT ![TexOf(BakeImage)] = 0]
                   /\ trace' = [trace EXCEPT !.gpu = TRUE,
                                   !.log = Append(@, Call("gl_load", BakeImage, 0))]
              ELSE UNCHANGED <<images, boundTex, texParam, trace>>
    /\ pc' = "gl_enter"
    /\ UNCHANGED <<hsbitmaps, mgr, bitmaps, layers, mats, cur, result, calls, scope, fn, scene, client>>

\* __del__ calling gl_free whether the adapter made the binding or not
DelFrees_Always(a) == a.live /\ a.blimg # NoImage

\* _GLTexture.__del__: gl_free of an owned image. An adapter whose __init__
\* raised has no _blimg, and its __del__ fails on that attribute (ignored).
DelFrees(a) == a.live /\ a.ownit /\ a.blimg # NoImage

ImagesAfterDel(a) ==
    IF DelFrees(a) THEN [images EXCEPT ![a.blimg].bindcode = 0] ELSE images

\* glDeleteTextures of a bound texture leaves texture 0 bound
BoundAfterDel(a) ==
    IF DelFrees(a) /\ boundTex = images[a.blimg].bindcode THEN 0 ELSE boundTex

ParamAfterDel(a) ==
    IF DelFrees(a) THEN [texParam EXCEPT ![images[a.blimg].bindcode] = 0] ELSE texParam

DelLog(a) == IF DelFrees(a) THEN <<Call("gl_free", a.blimg, 0)>> ELSE <<>>

\* _GLTexture.__init__ when gl_load fails: GLLoadError leaves
\* export_material; the half-built adapter is dropped
GLInitFail ==
    /\ pc = "gl_init"
    /\ images[BakeImage].bindcode = 0
    /\ LET a == [NoAdapter EXCEPT !.live = TRUE, !.image = BakeImage, !.ownit = TRUE]
       IN  /\ images' = ImagesAfterDel(a)
           /\ boundTex' = BoundAfterDel(a)
           /\ texParam' = ParamAfterDel(a)
           /\ trace' = [trace EXCEPT !.gpu = TRUE,
                           !.log = Append(@, Call("gl_load", BakeImage, 1)) \o DelLog(a)]
    /\ glt' = NoAdapter
    /\ result' = "GLLoadError"
    /\ pc' = "idle"
    /\ cur' = cur
    /\ UNCHANGED <<hsbitmaps, mgr, bitmaps, layers, mats, calls, scope, fn, scene, client>>

\* _GLTexture.__enter__
GLEnter ==
    /\ pc = "gl_enter"
    /\ LET previous == boundTex
           changed  == (previous # BakeTex)
       IN  /\ glt' = [glt EXCEPT !.previous_texture = previous,
                                 !.changed_state = changed]
           /\ boundTex' = IF changed THEN BakeTex ELSE boundTex
           /\ trace' = [trace EXCEPT !.gpu = TRUE,
                  !.log = Append(@, Call("__enter__", BakeImage, previous))
                          \o (IF changed THEN <<Call("glBindTexture", BakeTex, 0)>>
                              ELSE <<>>)]
    /\ scope' = [entered |-> TRUE, image |-> BakeImage, P |-> boundTex,
                 M |-> texParam[BakeTex], MP |-> texParam[boundTex]]
    /\ pc' = "with_body"
    /\ UNCHANGED <<images, texParam, hsbitmaps, mgr, bitmaps, layers, mats, cur,
                   result, calls, fn, scene, client>>

\* _GLTexture.generate_mipmap (texture.use_mipmap is set)
GenerateMipmap ==
    /\ pc = "with_body"
    /\ Texture.use_mipmap
    /\ glt' = [glt EXCEPT !.mipmap_state = <<texParam[boundTex]>>]
    /\ texParam' = [texParam EXCEPT ![boundTex] = 1]
    /\ trace' = [trace EXCEPT !.gpu = TRUE,
                     !.log = @ \o <<Call("generate_mipmap", BakeImage, 0),
                                    Call("glTexParameteri", boundTex, 1)>>]
    /\ pc' = "levels"
    /\ UNCHANGED <<images, boundTex, hsbitmaps, mgr, bitmaps, layers, mats, cur,
                   result, calls, scope, fn, scene, client>>

\* generate_mipmap raises: in _get_tex_param, before _mipmap_state is set,
\* or in glTexParameteri, after it
GenerateMipmapRaises ==
    /\ pc = "with_body"
    /\ Texture.use_mipmap
    /\ \E stored \in BOOLEAN :
           glt' = IF stored THEN [glt EXCEPT !.mipmap_state = <<texParam[boundTex]>>]
                  ELSE glt
    /\ cur' = [cur EXCEPT !.exc = "GLError"]
    /\ trace' = [trace EXCEPT !.gpu = TRUE,
                     !.log = Append(@, Call("generate_mipmap", BakeImage, 0))]
    /\ pc' = "gl_exit"
    /\ UNCHANGED <<images, boundTex, texParam, hsbitmaps, mgr, bitmaps, layers, mats,
                   result, calls, scope, fn, scene, client>>

\* texture.use_mipmap is not set: the with-body goes to the level loop
NoMipmap ==
    /\ pc = "with_body"
    /\ ~Texture.use_mipmap
    /\ pc' = "levels"
    /\ UNCHANGED <<images, boundTex, texParam, glt, hsbitmaps, mgr, bitmaps, layers,
                   mats, cur, result, calls, scope, trace, fn, scene, client>>

\* mipmap.CompressImage(i, data) / mipmap.setLevel(i, data)
StuffLevel(b, i, data) ==
    [b EXCEPT !.levels = Append(@,
        [level |-> i, data |-> data,
         by |-> StuffFunc(b.compType)])]

\* One turn of the level loop: get_level_data(i, use_calculate_alpha), then
\* the level is handed to the plMipmap
GetLevel ==
    /\ pc = "levels"
    /\ cur.level < bitmaps[cur.mipmap].numLevels
    /\ LET width  == LevelDim(images[BakeImage].size[1], cur.level)
           height == LevelDim(images[BakeImage].size[2], cur.level)
           size   == width * height * 4
           got    == GetLevelData(TexImage(images[BakeImage].size, cur.level), size,
                                  Texture.use_calculate_alpha)
           read   == Call("get_level_data", cur.level, Flag(Texture.use_calculate_alpha))
       IN  IF got.exc = ""
           THEN /\ bitmaps' = [bitmaps EXCEPT ![cur.mipmap] =
                                  StuffLevel(@, cur.level, got.data)]
                /\ cur' = [cur EXCEPT !.level = @ + 1]
                /\ pc' = pc
                /\ trace' = [trace EXCEPT !.gpu = TRUE,
                       !.log = @ \o <<read, Call(StuffFunc(bitmaps[cur.mipmap].compType),
                                                 cur.level, 0)>>,
                       !.bakes[Len(trace.bakes)].calc =
                           Append(@, Texture.use_calculate_alpha)]
           ELSE /\ bitmaps' = bitmaps
                /\ cur' = [cur EXCEPT !.exc = got.exc]
                /\ pc' = "gl_exit"
                /\ trace' = [trace EXCEPT !.gpu = TRUE, !.log = Append(@, read)]
    /\ UNCHANGED <<images, boundTex, texParam, glt, hsbitmaps, mgr, layers, mats,
                   result, calls, scope, fn, scene, client>>

\* get_level_data raises in a GL call (the level does not exist, no memory)
GetLevelRaises ==
    /\ pc = "levels"
    /\ cur.level < bitmaps[cur.mipmap].numLevels
    /\ cur' = [cur EXCEPT !.exc = "GLError"]
    /\ trace' = [trace EXCEPT !.gpu = TRUE,
                     !.log = Append(@, Call("get_level_data", cur.level,
                                            Flag(Texture.use_calculate_alpha)))]
    /\ pc' = "gl_exit"
    /\ UNCHANGED <<images, boundTex, texParam, glt, hsbitmaps, mgr, bitmaps, layers,
                   mats, result, calls, scope, fn, scene, client>>

\* The level loop ending after level 0 whatever numLevels is
LevelsDone_AfterFirst ==
    /\ pc = "levels"
    /\ cur.level >= 1
    /\ pc' = "gl_exit"
    /\ UNCHANGED <<images, boundTex, texParam, glt, hsbitmaps, mgr, bitmaps, layers,
                   mats, cur, result, calls, scope, trace, fn, scene, client>>

\* The level loop ends
LevelsDone ==
    /\ pc = "levels"
    /\ cur.level >= bitmaps[cur.mipmap].numLevels
    /\ pc' = "gl_exit"
    /\ UNCHANGED <<images, boundTex, texParam, glt, hsbitmaps, mgr, bitmaps, layers,
                   mats, cur, result, calls, scope, trace, fn, scene, client>>

\* __exit__ testing the stored value for truth (if mipmap_state:) instead of
\* for None: a stored 0 is not written back
ExitParam_Truthy(a) ==
    IF a.mipmap_state # <<>> /\ a.mipmap_state # <<0>>
    THEN [texParam EXCEPT ![boundTex] = a.mipmap_state[1]]
    ELSE texParam

\* _GLTexture.__exit__, first half: GL_GENERATE_MIPMAP of the bound texture
\* is set back when generate_mipmap stored it
ExitParam(a) ==
    IF a.mipmap_state # <<>>
    THEN [texParam EXCEPT ![boundTex] = a.mipmap_state[1]]
    ELSE texParam

\* _GLTexture.__exit__, second half: the previous texture is bound again
ExitBinding(a) == IF a.changed_state THEN a.previous_texture ELSE boundTex

\* The GL calls __exit__ makes, in their order
ExitLog(a) ==
    <<Call("__exit__", a.image, 0)>>
    \o (IF a.mipmap_state # <<>>
        THEN <<Call("glTexParameteri", boundTex, a.mipmap_state[1])>> ELSE <<>>)
    \o (IF a.changed_state
        THEN <<Call("glBindTexture", a.previous_texture, 0)>> ELSE <<>>)

\* __exit__ binding the previous texture first and setting the parameter
\* after it
GLExit_RebindFirst ==
    /\ pc = "gl_exit"
    /\ boundTex' = ExitBinding(glt)
    /\ texParam' = IF glt.mipmap_state # <<>>
                   THEN [texParam EXCEPT ![ExitBinding(glt)] = glt.mipmap_state[1]]
                   ELSE texParam
    /\ trace' = [trace EXCEPT !.gpu = TRUE,
           !.log = Append(@, Call("__exit__", glt.image, 0))
                   \o (IF glt.changed_state
                       THEN <<Call("glBindTexture", glt.previous_texture, 0)>> ELSE <<>>)
                   \o (IF glt.mipmap_state # <<>>
                       THEN <<Call("glTexParameteri", ExitBinding(glt), glt.mipmap_state[1])>>
                       ELSE <<>>)]
    /\ pc' = "with_done"
    /\ UNCHANGED <<images, glt, hsbitmaps, mgr, bitmaps, layers, mats, cur, result,
                   calls, scope, fn, scene, client>>

\* _GLTexture.__exit__, on the normal and on the exceptional way out
GLExit ==
    /\ pc = "gl_exit"
    /\ texParam' = ExitParam(glt)
    /\ boundTex' = ExitBinding(glt)
    /\ trace' = [trace EXCEPT !.gpu = TRUE, !.log = @ \o ExitLog(glt)]
    /\ pc' = "with_done"
    /\ UNCHANGED <<images, glt, hsbitmaps, mgr, bitmaps, layers, mats, cur, result,
                   calls, scope, fn, scene, client>>

\* _TEMP_export_image returns the plMipmap (its adapter is dropped), and
\* _export_texture_type_image caches it and puts it on the layer, which
\* _export_texture_slots adds to the material
BakeReturns ==
    /\ pc = "with_done"
    /\ cur.exc = ""
    /\ images' = ImagesAfterDel(glt)
    /\ boundTex' = BoundAfterDel(glt)
    /\ texParam' = ParamAfterDel(glt)
    /\ glt' = NoAdapter
    /\ hsbitmaps' = DictPut(hsbitmaps, cur.name, cur.mipmap)
    /\ layers' = [layers EXCEPT ![cur.layer].texture = cur.mipmap]
    /\ mats' = AddLayer(cur.hsgmat, cur.layer)
    /\ cur' = [cur EXCEPT !.si = @ + 1, !.layer = 0, !.name = <<>>, !.mipmap = 0,
                          !.level = 0, !.osize = <<0, 0>>, !.scaled = FALSE]
    /\ scope' = NoScope
    /\ trace' = [trace EXCEPT !.bakes[Len(trace.bakes)].done = TRUE,
                                !.log = @ \o DelLog(glt)]
    /\ pc' = "slots"
    /\ UNCHANGED <<mgr, bitmaps, result, calls, fn, scene, client>>

\* The exception of the with-body leaves export_material
BakeRaises ==
    /\ pc = "with_done"
    /\ cur.exc # ""
    /\ images' = ImagesAfterDel(glt)
    /\ boundTex' = BoundAfterDel(glt)
    /\ texParam' = ParamAfterDel(glt)
    /\ glt' = NoAdapter
    /\ result' = cur.exc
    /\ cur' = cur
    /\ scope' = NoScope
    /\ trace' = [trace EXCEPT !.log = @ \o DelLog(glt)]
    /\ pc' = "idle"
    /\ UNCHANGED <<hsbitmaps, mgr, bitmaps, layers, mats, calls, fn, scene, client>>

\* export_material without the default layer
ExportMaterialReturns_NoDefault ==
    /\ pc = "slots"
    /\ cur.si > Len(CurSlots)
    /\ result' = "returned"
    /\ cur' = cur
    /\ pc' = "idle"
    /\ UNCHANGED <<images, boundTex, texParam, glt, hsbitmaps, bitmaps, calls,
                   scope, trace, fn, scene, client, layers, mgr, mats>>

\* export_material adding the default layer whatever the layer list holds
ExportMaterialReturns_AlwaysDefault ==
    /\ pc = "slots"
    /\ cur.si > Len(CurSlots)
    /\ layers' = Append(layers,
           NewLayer(cur.hsgmat, <<mats[cur.hsgmat].name, "AutoLayer">>,
                    Tex("NONE", NoImage, FALSE, FALSE, FALSE)))
    /\ mgr' = Register("plLayer", Len(layers) + 1)
    /\ mats' = AddLayer(cur.hsgmat, Len(layers) + 1)
    /\ result' = "returned"
    /\ cur' = cur
    /\ pc' = "idle"
    /\ UNCHANGED <<images, boundTex, texParam, glt, hsbitmaps, bitmaps, calls,
                   scope, trace, fn, scene, client>>

\* export_material after _export_texture_slots: the default layer, the return
ExportMaterialReturns ==
    /\ pc = "slots"
    /\ cur.si > Len(CurSlots)
    /\ IF mats[cur.hsgmat].layers = <<>>
       THEN /\ layers' = Append(layers,
                   NewLayer(cur.hsgmat, <<mats[cur.hsgmat].name, "AutoLayer">>,
                            Tex("NONE", NoImage, FALSE, FALSE, FALSE)))
            /\ mgr' = Register("plLayer", Len(layers) + 1)
            /\ mats' = AddLayer(cur.hsgmat, Len(layers) + 1)
       ELSE UNCHANGED <<layers, mgr, mats>>
    /\ result' = "returned"
    /\ cur' = cur
    /\ pc' = "idle"
    /\ UNCHANGED <<images, boundTex, texParam, glt, hsbitmaps, bitmaps, calls,
                   scope, trace, fn, scene, client>>

\* --------------------------------------------------------- specification
Next ==
    \/ ExportMaterial
    \/ SlotSkip
    \/ SlotUnsupported
    \/ SlotNone
    \/ SlotImageNoImage
    \/ SlotImageCached
    \/ SlotImageBake
    \/ GLInit
    \/ GLInitFail
    \/ GLEnter
    \/ GenerateMipmap
    \/ GenerateMipmapRaises
    \/ NoMipmap
    \/ GetLevel
    \/ GetLevelRaises
    \/ LevelsDone
    \/ GLExit
    \/ BakeReturns
    \/ BakeRaises
    \/ ExportMaterialReturns

Spec == Init /\ [][Next]_vars

\* ----------------------------------------- the pure computations, alone
\* The converter at rest while a computation is applied to drawn arguments.
AtRest ==
    /\ images = [i \in Images |-> [bindcode |-> 0, size |-> ImageTable[i].size]]
    /\ texParam = [t \in TexNames |-> 0]
    /\ boundTex = HostTex
    /\ glt = NoAdapter
    /\ hsbitmaps = <<>>
    /\ mgr = {}
    /\ bitmaps = <<>>
    /\ layers = <<>>
    /\ mats = <<>>
    /\ pc = "idle"
    /\ cur = NoFrame
    /\ result = ""
    /\ calls = 0
    /\ scope = NoScope
    /\ trace = NoTrace
    /\ scene = NoScene
    /\ client = NoClient

NameInputs ==
    {[op |-> "BitmapName", arg |-> [name |-> n, use_mipmap |-> m], out |-> <<>>] :
        n \in SeqsUpTo(NameChars, MaxNameLen) \ {<<>>}, m \in BOOLEAN}

SizeInputs ==
    {[op |-> "ExportSize", arg |-> <<w, h>>, out |-> <<>>] :
        w \in DimSamples, h \in DimSamples}

LevelInputs ==
    {[op |-> "GetLevelData",
      arg |-> [width |-> Len(px), height |-> 1, calc_alpha |-> c,
               buf |-> [k \in 1..(4 * Len(px)) |-> px[((k - 1) \div 4) + 1][((k - 1) % 4) + 1]]],
      out |-> <<>>] :
        px \in SeqsUpTo(PixelSamples, MaxPixels) \ {<<>>}, c \in BOOLEAN}

InitPure ==
    /\ AtRest
    /\ fn \in NameInputs \cup SizeInputs \cup LevelInputs

UnchangedRest ==
    UNCHANGED <<images, boundTex, texParam, glt, hsbitmaps, mgr, bitmaps, layers,
                mats, pc, cur, result, calls, scope, trace, scene, client>>

ApplyBitmapName ==
    /\ fn.op = "BitmapName" /\ fn.out = <<>>
    /\ fn' = [fn EXCEPT !.out = <<BitmapName(fn.arg.name, fn.arg.use_mipmap)>>]
    /\ UnchangedRest

ApplyExportSize ==
    /\ fn.op = "ExportSize" /\ fn.out = <<>>
    /\ fn' = [fn EXCEPT !.out = <<ExportSize(fn.arg)>>]
    /\ UnchangedRest

ApplyGetLevelData ==
    /\ fn.op = "GetLevelData" /\ fn.out = <<>>
    /\ fn' = [fn EXCEPT !.out =
                 <<GetLevelData(fn.arg.buf, fn.arg.width * fn.arg.height * 4,
                                fn.arg.calc_alpha)>>]
    /\ UnchangedRest

NextPure == ApplyBitmapName \/ ApplyExportSize \/ ApplyGetLevelData

SpecPure == InitPure /\ [][NextPure]_vars

\* ------------------------------------------------- _GLTexture, by itself
\* The class as any caller may use it: an adapter is made for an image,
\* with-blocks are entered on it, generate_mipmap is called in them any number
\* of times, and the adapter is dropped. Between with-blocks the host
\* application may set GL_GENERATE_MIPMAP of its own texture.
InitGL ==
    /\ \E loaded \in {{}, {HostLoaded}} :
           /\ images = [i \in Images |->
                           [bindcode |-> IF i \in loaded THEN TexOf(i) ELSE 0,
                            size |-> ImageTable[i].size]]
           /\ \E m \in {0, 1} :
                  /\ loaded = {} => m = 0
                  /\ texParam = [t \in TexNames |->
                                    IF \E i \in loaded : t = TexOf(i) THEN m ELSE 0]
    /\ boundTex = HostTex
    /\ glt = NoAdapter
    /\ hsbitmaps = <<>>
    /\ mgr = {}
    /\ bitmaps = <<>>
    /\ layers = <<>>
    /\ mats = <<>>
    /\ pc = "client"
    /\ cur = NoFrame
    /\ result = ""
    /\ calls = 0
    /\ scope = NoScope
    /\ trace = [NoTrace EXCEPT !.host = [i \in Images |-> images[i].bindcode]]
    /\ fn = NoFn
    /\ scene = NoScene
    /\ client = NoClient

ConverterAtRest ==
    UNCHANGED <<hsbitmaps, mgr, bitmaps, layers, mats, cur, result, calls, trace,
                fn, scene>>

\* No with-block is active
Outside == pc \in {"client", "exited"}

\* _GLTexture(blimg) with gl_load, if needed, returning 0
ClientNew ==
    /\ Outside
    /\ ~glt.live
    /\ \E blimg \in Images :
           LET ownit == (images[blimg].bindcode = 0)
           IN  /\ glt' = [NoAdapter EXCEPT !.live = TRUE, !.image = blimg,
                                           !.ownit = ownit, !.blimg = blimg]
               /\ IF ownit
                  THEN /\ images' = [images EXCEPT ![blimg].bindcode = TexOf(blimg)]
                       /\ boundTex' = TexOf(blimg)
                       /\ texParam' = [texParam EXCEPT ![TexOf(blimg)] = 0]
                  ELSE UNCHANGED <<images, boundTex, texParam>>
    /\ client' = NoClient
    /\ pc' = "client"
    /\ scope' = NoScope
    /\ ConverterAtRest

\* __enter__
ClientEnter ==
    /\ Outside
    /\ glt.live
    /\ client.scopes < MaxScopes
    /\ LET tex      == images[glt.blimg].bindcode
           previous == boundTex
           changed  == (previous # tex)
       IN  /\ glt' = [glt EXCEPT !.previous_texture = previous,
                                 !.changed_state = changed]
           /\ boundTex' = IF changed THEN tex ELSE boundTex
           /\ scope' = [entered |-> TRUE, image |-> glt.blimg, P |-> previous,
                        M |-> texParam[tex], MP |-> texParam[previous]]
    /\ client' = [scopes |-> client.scopes + 1, gens |-> 0]
    /\ pc' = "in_scope"
    /\ UNCHANGED <<images, texParam>>
    /\ ConverterAtRest

\* generate_mipmap
ClientGenerateMipmap ==
    /\ pc = "in_scope"
    /\ client.gens < MaxGenerate
    /\ glt' = [glt EXCEPT !.mipmap_state = <<texParam[boundTex]>>]
    /\ texParam' = [texParam EXCEPT ![boundTex] = 1]
    /\ client' = [client EXCEPT !.gens = @ + 1]
    /\ UNCHANGED <<images, boundTex, pc, scope>>
    /\ ConverterAtRest

\* __exit__
ClientExit ==
    /\ pc = "in_scope"
    /\ texParam' = ExitParam(glt)
    /\ boundTex' = ExitBinding(glt)
    /\ pc' = "exited"
    /\ UNCHANGED <<images, glt, scope, client>>
    /\ ConverterAtRest

\* __del__
ClientDel ==
    /\ Outside
    /\ glt.live
    /\ images' = ImagesAfterDel(glt)
    /\ boundTex' = BoundAfterDel(glt)
    /\ texParam' = ParamAfterDel(glt)
    /\ glt' = NoAdapter
    /\ pc' = "client"
    /\ UNCHANGED <<scope, client>>
    /\ ConverterAtRest

\* The host application sets GL_GENERATE_MIPMAP of the image's texture
\* between two with-blocks
HostSetsParam ==
    /\ pc = "exited"
    /\ glt.live
    /\ client.scopes < MaxScopes
    /\ \E v \in {0, 1} :
           /\ v # texParam[images[glt.blimg].bindcode]
           /\ texParam' = [texParam EXCEPT ![images[glt.blimg].bindcode] = v]
    /\ pc' = "client"
    /\ UNCHANGED <<images, boundTex, glt, scope, client>>
    /\ ConverterAtRest

NextGL ==
    \/ ClientNew
    \/ ClientEnter
    \/ ClientGenerateMipmap
    \/ ClientExit
    \/ ClientDel
    \/ HostSetsParam

SpecGL == InitGL /\ [][NextGL]_vars

\* ================================================================ claims
\* The material of the last export_material call and its slots
LastMat == mats[Len(mats)]

IsEnabled(slot) == ~slot.null /\ slot.use

\* The indices of the slots in use, in slot order
RECURSIVE EnabledFrom(_, _)
EnabledFrom(bm, k) ==
    IF k > Len(bm) THEN <<>>
    ELSE (IF IsEnabled(bm[k]) THEN <<k>> ELSE <<>>) \o EnabledFrom(bm, k + 1)

IsAutoLayer(l) == layers[l].name[2] = "AutoLayer"

\* C1: when a _GLTexture with-block has been left, by the end of its body or
\* by an exception of generate_mipmap or get_level_data, the texture that was
\* bound when it was entered is bound again and GL_GENERATE_MIPMAP of the
\* image's texture has the value it had on entry.
C1_ScopeRestoresGLState ==
    pc = "with_done" =>
        /\ boundTex = scope.P
        /\ texParam[images[scope.image].bindcode] = scope.M

\* C1 witness: a level read raised after an earlier level was read, in a
\* scope that rebound the texture and stored a mipmap parameter of 1.
C1_Witness ==
    /\ pc = "with_done"
    /\ cur.exc # ""
    /\ cur.level > 0
    /\ glt.changed_state
    /\ glt.mipmap_state = <<1>>
    /\ scope.M = 1
    /\ scope.P = HostTex

\* C3: a material that export_material returned has at least one layer.
C3_ReturnedMaterialHasLayer ==
    result = "returned" => Len(LastMat.layers) >= 1

\* C3 witness: export_material returned for a material whose slots are all
\* None or not in use.
C3_Witness ==
    /\ result = "returned"
    /\ Len(LastMat.bm) = MaxSlots
    /\ \A k \in DOMAIN LastMat.bm : ~IsEnabled(LastMat.bm[k])
    /\ \E k \in DOMAIN LastMat.bm : LastMat.bm[k].null
    /\ Len(LastMat.layers) = 1

C6_UnsupportedLeavesLayers ==
    /\ [][(InUse /\ ~HasAttr(ExportFn(Texture)))
            => (result' = "UnsupportedTextureError" /\ pc' = "idle" /\ mats' = mats)]_vars
    /\ [](result = "UnsupportedTextureError" =>
            /\ pc = "idle"
            /\ Len(mats[cur.hsgmat].layers) = Len(EnabledFrom(CurSlots, 1))
                   - Len(EnabledFrom(CurSlots, cur.si))
            /\ \A j \in DOMAIN mats[cur.hsgmat].layers :
                   ~IsAutoLayer(mats[cur.hsgmat].layers[j]))

\* C6 witness: the second slot of a material raised UnsupportedTextureError
\* after the first slot had added its layer.
C6_Witness ==
    /\ result = "UnsupportedTextureError"
    /\ cur.si = 2
    /\ Len(mats[cur.hsgmat].layers) = 1
    /\ Len(layers) > Len(mats[cur.hsgmat].layers)

\* The normalized bitmap name as the specification words it: the part of the
\* image name before its first ".", the whole name when it has none, then
\* ".dds" with mipmapping and ".bmp" without.
StatedBitmapName(imageName, use_mipmap) ==
    LET dots == {k \in 1..Len(imageName) : imageName[k] = "."}
        stem == IF dots = {} THEN imageName
                ELSE SubSeq(imageName, 1,
                            (CHOOSE k \in dots : \A j \in dots : k <= j) - 1)
    IN  stem \o (IF use_mipmap THEN <<".", "d", "d", "s">> ELSE <<".", "b", "m", "p">>)

\* The layers that are in a material's layer list and were made for an image
\* slot with an image
ImageLayers ==
    {l \in DOMAIN layers :
        /\ \E j \in DOMAIN mats[layers[l].mat].layers : mats[layers[l].mat].layers[j] = l
        /\ layers[l].slot.type = "IMAGE"
        /\ layers[l].slot.image # NoImage}

StatedNameOf(l) ==
    StatedBitmapName(ImageTable[layers[l].slot.image].name, layers[l].slot.use_mipmap)

\* C2: two exported image slots of a session whose image names normalize to
\* the same name with the same mipmap flag have the same plMipmap on their
\* layers, the later of the two ran no bake, and one bake was completed for
\* that name.
C2_SameNameSharesOneBake ==
    \A a \in ImageLayers : \A b \in ImageLayers :
        (a < b /\ StatedNameOf(a) = StatedNameOf(b)) =>
            /\ layers[a].texture = layers[b].texture
            /\ ~layers[b].baked
            /\ Cardinality({k \in DOMAIN trace.bakes :
                   /\ trace.bakes[k].done
                   /\ StatedBitmapName(ImageTable[trace.bakes[k].image].name,
                                       trace.bakes[k].use_mipmap) = StatedNameOf(a)}) = 1

\* C5: when export_material returns for a material none of whose slots in
\* use has a type other than "none", the material has exactly one layer, the
\* default layer <material>_AutoLayer.
C5_NoneSlotsGiveDefaultLayer ==
    (/\ result = "returned"
     /\ \A k \in DOMAIN LastMat.bm :
            IsEnabled(LastMat.bm[k]) => LastMat.bm[k].texture.type = "NONE")
    => /\ Len(LastMat.layers) = 1
       /\ IsAutoLayer(LastMat.layers[1])

\* C7: an image slot in use whose texture has no image is exported without
\* an exception: the loop goes on to the next slot, the slot's layer is in
\* the material with a plDynamicTextMap as its texture, and the GPU was not
\* used.
C7_NoImageGivesPlaceholder ==
    [][(InUse /\ Texture.type = "IMAGE" /\ Image = NoImage) =>
          /\ pc' = "slots"
          /\ result' = result
          /\ cur'.si = cur.si + 1
          /\ Len(mats'[cur.hsgmat].layers) = Len(mats[cur.hsgmat].layers) + 1
          /\ LET l == mats'[cur.hsgmat].layers[Len(mats'[cur.hsgmat].layers)]
             IN  /\ layers'[l].texture \in DOMAIN bitmaps'
                 /\ bitmaps'[layers'[l].texture].kind = "plDynamicTextMap"
          /\ ~trace'.gpu
          /\ boundTex' = boundTex /\ images' = images /\ texParam' = texParam]_vars

\* 2^round(log2(x)) for an integer x >= 1: log2(x) has a fractional part of
\* one half or more exactly when x * x >= 2 * (2^int)^2.
StatedPowerOfTwo(x) ==
    LET e == MathLog2(x).int
    IN  IF x * x >= 2 * Pow2(e) * Pow2(e) THEN Pow2(e + 1) ELSE Pow2(e)

\* C8: the size given to the plMipmap is 2^round(log2(w)) by
\* 2^round(log2(h)), each axis by itself, and image.scale is called exactly
\* when that size differs from the image's.
C8_SizeIsNearestPowerOfTwo ==
    (fn.op = "ExportSize" /\ fn.out # <<>>) =>
        /\ fn.out[1].width = StatedPowerOfTwo(fn.arg[1])
        /\ fn.out[1].height = StatedPowerOfTwo(fn.arg[2])
        /\ fn.out[1].resize <=>
               (<<StatedPowerOfTwo(fn.arg[1]), StatedPowerOfTwo(fn.arg[2])>> # fn.arg)

\* C9: get_level_data returns width*height*4 bytes; with calc_alpha every
\* pixel's alpha byte is (R + G + B) div 3 of its own R, G, B bytes, which are
\* as read back; without calc_alpha the bytes are the readback.
C9_AlphaIsMeanOfRGB ==
    (fn.op = "GetLevelData" /\ fn.out # <<>>) =>
        LET buf  == fn.arg.buf
            got  == fn.out[1]
            npix == fn.arg.width * fn.arg.height
        IN  /\ got.exc = ""
            /\ Len(got.data) = npix * 4
            /\ IF fn.arg.calc_alpha
               THEN \A q \in 0..(npix - 1) :
                        /\ got.data[4 * q + 1] = buf[4 * q + 1]
                        /\ got.data[4 * q + 2] = buf[4 * q + 2]
                        /\ got.data[4 * q + 3] = buf[4 * q + 3]
                        /\ got.data[4 * q + 4] =
                               (buf[4 * q + 1] + buf[4 * q + 2] + buf[4 * q + 3]) \div 3
               ELSE got.data = buf

\* C10: the name a bitmap is cached under is the image name up to its first
\* "." (all of it when it has none) followed by ".dds" with mipmapping and
\* ".bmp" without.
C10_NameIsStemPlusExtension ==
    (fn.op = "BitmapName" /\ fn.out # <<>>) =>
        fn.out[1] = StatedBitmapName(fn.arg.name, fn.arg.use_mipmap)

\* C11: every bake, whatever use_mipmap, use_alpha and use_calculate_alpha
\* of its texture are, makes its plMipmap with level hint 0 and DirectX
\* compression when use_mipmap is set and with level hint 1 and no compression
\* otherwise, with DXT5 when use_alpha or use_calculate_alpha is set and DXT1
\* otherwise, and hands every level to CompressImage when the compression is
\* DirectX and to setLevel when there is none.
C11_PolicyFollowsFlags ==
    \A k \in DOMAIN trace.bakes :
        LET t == trace.bakes[k].texture
            b == bitmaps[trace.bakes[k].bitmap]
        IN  /\ t.use_mipmap =>
                   b.levelHint = 0 /\ b.compType = "kDirectXCompression"
            /\ ~t.use_mipmap =>
                   b.levelHint = 1 /\ b.compType = "kUncompressed"
            /\ b.dxt = (IF t.use_alpha \/ t.use_calculate_alpha THEN "kDXT5" ELSE "kDXT1")
            /\ \A j \in DOMAIN b.levels :
                   /\ b.compType = "kDirectXCompression" => b.levels[j].by = "CompressImage"
                   /\ b.compType = "kUncompressed" => b.levels[j].by = "setLevel"

\* C11 witness: a completed bake of a texture with use_mipmap and
\* use_calculate_alpha but not use_alpha, whose two levels went to
\* CompressImage, after a completed bake without use_mipmap.
C11_Witness ==
    /\ Len(trace.bakes) = 2
    /\ trace.bakes[1].done /\ trace.bakes[2].done
    /\ ~trace.bakes[1].texture.use_mipmap
    /\ bitmaps[trace.bakes[1].bitmap].levels # <<>>
    /\ trace.bakes[2].texture.use_mipmap
    /\ ~trace.bakes[2].texture.use_alpha
    /\ trace.bakes[2].texture.use_calculate_alpha
    /\ bitmaps[trace.bakes[2].bitmap].dxt = "kDXT5"
    /\ Len(bitmaps[trace.bakes[2].bitmap].levels) = 2

\* The calls of the last bake, and the places of a call in them
Log == trace.log

Pos(op) == {p \in DOMAIN Log : Log[p].op = op}

\* C12: when a _GLTexture scope is left, GL_GENERATE_MIPMAP is written
\* before the previous texture is bound again, so the write goes to the
\* image's texture and the previously bound texture keeps its parameter; the
\* previous texture is bound again exactly when __enter__ changed the
\* binding; nothing is written when generate_mipmap was not called in the
\* scope, and the value is written back when generate_mipmap set it.
C12_ParamRestoredBeforeRebind ==
    /\ \A x \in Pos("__exit__") :
           LET e      == CHOOSE p \in Pos("__enter__") : p < x
               tex    == TexOf(Log[x].a)
               P      == Log[e].b
               writes == {p \in Pos("glTexParameteri") : p > x}
               binds  == {p \in Pos("glBindTexture") : p > x}
           IN  /\ \A w \in writes : Log[w].a = tex
               /\ \A w \in writes : \A b \in binds : w < b
               /\ (binds # {}) <=> (P # tex)
               /\ \A b \in binds : Log[b].a = P
               /\ (\A p \in Pos("generate_mipmap") : p > x) => writes = {}
               /\ (\E p \in Pos("glTexParameteri") : p < x) => Cardinality(writes) = 1
    /\ (pc = "with_done" /\ scope.P # images[scope.image].bindcode) =>
           texParam[scope.P] = scope.MP

\* C12 witness: a scope that changed the binding from the host's texture,
\* whose parameter is 0, was left after generate_mipmap had stored a parameter
\* of 1 and all levels were read: 1 was written to the image's texture, then
\* the host's texture was bound.
C12_Witness ==
    /\ pc = "with_done"
    /\ cur.exc = ""
    /\ glt.changed_state
    /\ glt.mipmap_state = <<1>>
    /\ scope.P = HostTex
    /\ scope.MP = 0
    /\ texParam[HostTex] = 0
    /\ Log[Len(Log)] = Call("glBindTexture", HostTex, 0)
    /\ Log[Len(Log) - 1] = Call("glTexParameteri", TexOf(scope.image), 1)

\* C13: an adapter owns the binding exactly when the image had none when
\* the adapter was made; when it is released gl_free is called exactly when
\* it owns the binding; so between bakes every image has the bindcode it had
\* before the session: a binding of the host is kept, and an image without
\* one is without one again.
C13_FreesOnlyOwnBinding ==
    /\ glt.live => (glt.ownit <=> trace.host[glt.image] = 0)
    /\ (~glt.live /\ Pos("__enter__") # {}) =>
           LET image == Log[CHOOSE p \in Pos("__enter__") : TRUE].a
           IN  /\ (Pos("gl_free") # {}) <=> (trace.host[image] = 0)
               /\ \A p \in Pos("gl_free") : Log[p].a = image
    /\ ~glt.live => \A i \in Images : images[i].bindcode = trace.host[i]

\* C13 witness: after a completed bake of the image the host had bound to a
\* texture and a completed bake of an image without a binding, the first has
\* its binding and the second, freed by its adapter, has none.
C13_Witness ==
    /\ ~glt.live
    /\ Len(trace.bakes) = 2
    /\ trace.bakes[1].done /\ trace.bakes[2].done
    /\ trace.host[trace.bakes[1].image] # 0
    /\ images[trace.bakes[1].image].bindcode = trace.host[trace.bakes[1].image]
    /\ trace.host[trace.bakes[2].image] = 0
    /\ images[trace.bakes[2].image].bindcode = 0
    /\ Log[Len(Log)] = Call("gl_free", trace.bakes[2].image, 0)

\* The bake export_material was in when it ended
LastBake == trace.bakes[Len(trace.bakes)]

\* What a failed gl_load leaves behind, with the cache looked up under the
\* name the code computes for the image
GLLoadErrorLeavesNothing ==
    (result = "GLLoadError") =>
        /\ pc = "idle"
        /\ boundTex = LastBake.bound
        /\ Pos("gl_free") = {}
        /\ images[LastBake.image].bindcode = 0
        /\ ~DictHas(hsbitmaps, BitmapName(ImageTable[LastBake.image].name,
                                          LastBake.use_mipmap))
        /\ \A m \in DOMAIN mats : \A j \in DOMAIN mats[m].layers :
               mats[m].layers[j] # LastBake.layer

\* C14: when gl_load fails in a bake, export_material ends with GLLoadError,
\* and then the texture bound before the slot is bound, gl_free was not
\* called, _hsbitmaps has no entry under the normalized name of the image
\* (its name up to the first ".", then ".dds" or ".bmp"), and the layer of the
\* slot is in no material.
C14_GLLoadErrorLeavesNothing ==
    (result = "GLLoadError") =>
        /\ pc = "idle"
        /\ boundTex = LastBake.bound
        /\ Pos("gl_free") = {}
        /\ ~DictHas(hsbitmaps, StatedBitmapName(ImageTable[LastBake.image].name,
                                                LastBake.use_mipmap))
        /\ \A m \in DOMAIN mats : \A j \in DOMAIN mats[m].layers :
               mats[m].layers[j] # LastBake.layer

\* C15: in every bake generate_mipmap and get_level_data are called after
\* __enter__ and before __exit__; generate_mipmap is called once, before the
\* first get_level_data, when use_mipmap is set, and never when it is not; the
\* levels read are 0, 1, ... in this order, each once and, when the bake
\* completes, all numLevels of them; and each level read is handed to the
\* plMipmap under the same index before the next one is read.
C15_LevelsInOrderInsideScope ==
    (trace.bakes # <<>>) =>
        LET t      == LastBake.texture
            n      == bitmaps[LastBake.bitmap].numLevels
            reads  == Pos("get_level_data")
            gens   == Pos("generate_mipmap")
            stuffs == Pos("CompressImage") \cup Pos("setLevel")
        IN  /\ \A p \in reads \cup gens :
                   /\ \E e \in Pos("__enter__") : e < p
                   /\ \A x \in Pos("__exit__") : p < x
            /\ ~t.use_mipmap => gens = {}
            /\ t.use_mipmap =>
                   /\ Cardinality(gens) <= 1
                   /\ (reads # {} \/ Pos("__exit__") # {}) => Cardinality(gens) = 1
                   /\ \A g \in gens : \A r \in reads : g < r
            /\ \A r \in reads :
                   /\ Log[r].a = Cardinality({q \in reads : q < r})
                   /\ Log[r].a < n
                   /\ \/ r = Len(Log) /\ pc = "gl_exit"
                      \/ r < Len(Log) /\ Log[r + 1].op = "__exit__"
                      \/ r < Len(Log) /\ (r + 1) \in stuffs /\ Log[r + 1].a = Log[r].a
            /\ \A q \in stuffs : (q - 1) \in reads
            /\ \A j \in DOMAIN bitmaps[LastBake.bitmap].levels :
                   bitmaps[LastBake.bitmap].levels[j].level = j - 1
            /\ LastBake.done =>
                   /\ Cardinality(reads) = n
                   /\ Cardinality(stuffs) = n
                   /\ Len(bitmaps[LastBake.bitmap].levels) = n

\* C15 witness: a completed bake with use_mipmap of an image with two
\* levels: generate_mipmap, then level 0 read and handed over, then level 1.
C15_Witness ==
    /\ trace.bakes # <<>>
    /\ LastBake.done
    /\ LastBake.texture.use_mipmap
    /\ bitmaps[LastBake.bitmap].numLevels = 2
    /\ \E g \in Pos("generate_mipmap") :
           /\ Log[g + 2] = Call("get_level_data", 0, 0)
           /\ Log[g + 3] = Call("CompressImage", 0, 0)
           /\ Log[g + 4] = Call("get_level_data", 1, 0)
           /\ Log[g + 5] = Call("CompressImage", 1, 0)
           /\ Log[g + 6].op = "__exit__"

\* The slot a layer was made for: "<material>_<slot>" names it
SlotOfLayer(l) ==
    LET bm == mats[layers[l].mat].bm
    IN  bm[CHOOSE k \in DOMAIN bm : layers[l].name[2] = "slot" \o ToString(k)]

LayerOfSlot(m, k) ==
    {l \in DOMAIN layers :
        layers[l].mat = m /\ layers[l].name[2] = "slot" \o ToString(k)}

\* C16: the UVWSrc of the layer of a slot in use is the position, counted
\* from 0, of the first UV channel of the mesh named as the slot's uv_layer,
\* and 0 when no channel has that name or the mesh has no channels; and every
\* slot in use that the loop came to has its layer, whether a channel matched
\* or not: the UV lookup ends no export.
C16_UVWSrcIsFirstMatchOrZero ==
    /\ \A l \in DOMAIN layers :
           ~IsAutoLayer(l) =>
               LET matches == {k \in DOMAIN scene.uv : scene.uv[k] = SlotOfLayer(l).uv_layer}
               IN  /\ matches # {} =>
                          \E k \in matches :
                              /\ \A j \in matches : k <= j
                              /\ layers[l].UVWSrc = k - 1
                   /\ matches = {} => layers[l].UVWSrc = 0
    /\ (cur.hsgmat # 0) =>
           \A k \in DOMAIN CurSlots :
               (IsEnabled(CurSlots[k]) /\ (k < cur.si \/ (k = cur.si /\ pc # "slots")))
                   => LayerOfSlot(cur.hsgmat, k) # {}

\* C16 witness: a returned material on a mesh with the channels u, v, v: the
\* layer of a slot with uv_layer "v" has UVWSrc 1, and the layer of an image
\* slot with uv_layer "w", which no channel has, has UVWSrc 0 and its bitmap.
C16_Witness ==
    /\ result = "returned"
    /\ scene.uv = <<"u", "v", "v">>
    /\ Len(LastMat.layers) = 2
    /\ SlotOfLayer(LastMat.layers[1]).uv_layer = "v"
    /\ layers[LastMat.layers[1]].UVWSrc = 1
    /\ SlotOfLayer(LastMat.layers[2]).uv_layer = "w"
    /\ layers[LastMat.layers[2]].UVWSrc = 0
    /\ layers[LastMat.layers[2]].texture \in DOMAIN bitmaps

\* A slot with a UV layer chosen was exported on a mesh without UV channels.
UVLayerOnEmptyMesh ==
    /\ result = "returned"
    /\ scene.uv = <<>>
    /\ \E l \in DOMAIN layers :
           /\ ~IsAutoLayer(l)
           /\ SlotOfLayer(l).uv_layer = "v"
           /\ layers[l].UVWSrc = 0

\* C17: whatever the number of generate_mipmap calls in a with-block,
\* none, one or more, when the block has been left GL_GENERATE_MIPMAP of the
\* image's texture has the value it had when the block was entered, which is
\* its value before the first call; so a block without a call leaves it as it
\* was, also on an adapter that called generate_mipmap in an earlier block.
C17_ExitRestoresValueAtEntry ==
    pc = "exited" => texParam[images[scope.image].bindcode] = scope.M

\* generate_mipmap was called twice in a block entered with the parameter 0.
TwoCallsInOneScope ==
    /\ pc = "exited"
    /\ client.gens = 2
    /\ scope.M = 0

\* A block without a call was left on an adapter that stored the parameter
\* in an earlier block, after the host had changed the parameter.
CallInEarlierScopeOnly ==
    /\ pc = "exited"
    /\ client.scopes = 2
    /\ client.gens = 0
    /\ glt.mipmap_state # <<>>
    /\ glt.mipmap_state # <<scope.M>>

\* The part of an image name before its first ".", all of it when it has none
StatedStem(imageName) ==
    LET dots == {k \in 1..Len(imageName) : imageName[k] = "."}
    IN  IF dots = {} THEN imageName
        ELSE SubSeq(imageName, 1, (CHOOSE k \in dots : \A j \in dots : k <= j) - 1)

\* C18: two exported image slots of a session whose image names differ in
\* the part before the first "." have different plMipmaps on their layers,
\* and a bake was completed for the image of each.
C18_DifferentNamesDifferentBitmaps ==
    \A a \in ImageLayers : \A b \in ImageLayers :
        (a < b /\ StatedStem(ImageTable[layers[a].slot.image].name)
                      # StatedStem(ImageTable[layers[b].slot.image].name)) =>
            /\ layers[a].texture # layers[b].texture
            /\ \E k \in DOMAIN trace.bakes :
                   trace.bakes[k].done /\ trace.bakes[k].image = layers[a].slot.image
            /\ \E k \in DOMAIN trace.bakes :
                   trace.bakes[k].done /\ trace.bakes[k].image = layers[b].slot.image

\* The bake that made a plMipmap
BakeOf(b) == trace.bakes[CHOOSE k \in DOMAIN trace.bakes : trace.bakes[k].bitmap = b]

\* C19: the plMipmap on the layer of an exported image slot has the DXT
\* variant that the slot's own use_alpha and use_calculate_alpha give (DXT5
\* when either is set, DXT1 otherwise), and each of its levels was read with
\* calc_alpha equal to the slot's own use_calculate_alpha, also when the
\* plMipmap came from _hsbitmaps.
C19_BitmapMatchesLayerFlags ==
    \A l \in ImageLayers :
        (layers[l].texture \in DOMAIN bitmaps) =>
            LET t == layers[l].slot
                b == layers[l].texture
            IN  /\ bitmaps[b].dxt =
                       (IF t.use_alpha \/ t.use_calculate_alpha THEN "kDXT5" ELSE "kDXT1")
                /\ \A j \in DOMAIN BakeOf(b).calc :
                       BakeOf(b).calc[j] = t.use_calculate_alpha

\* C20: between export_material calls, whatever way they ended, every plLayer
\* registered with the manager is in the layer list of its material, and
\* every registered plMipmap has all its levels and is the entry of
\* _hsbitmaps under its name.
C20_RegisteredObjectsComplete ==
    (pc = "idle") =>
        \A o \in mgr :
            /\ o.kind = "plLayer" =>
                   \E j \in DOMAIN mats[layers[o.id].mat].layers :
                       mats[layers[o.id].mat].layers[j] = o.id
            /\ (o.kind = "plBitmap" /\ bitmaps[o.id].kind = "plMipmap") =>
                   /\ Len(bitmaps[o.id].levels) = bitmaps[o.id].numLevels
                   /\ DictHas(hsbitmaps, bitmaps[o.id].name)
                   /\ hsbitmaps[bitmaps[o.id].name] = o.id

\* export_material ended with GLLoadError and left a registered plMipmap
\* without levels and a registered plLayer outside its material.
OrphansAfterGLLoadError ==
    /\ result = "GLLoadError"
    /\ [kind |-> "plBitmap", id |-> LastBake.bitmap] \in mgr
    /\ bitmaps[LastBake.bitmap].levels = <<>>
    /\ [kind |-> "plLayer", id |-> LastBake.layer] \in mgr

\* A slot with use_mipmap and use_alpha got, from _hsbitmaps, the plMipmap
\* that a slot with use_mipmap and neither alpha flag had baked as DXT1.
CachedBitmapOfOtherFlags ==
    \E l \in ImageLayers :
        /\ ~layers[l].baked
        /\ layers[l].slot.use_mipmap
        /\ layers[l].slot.use_alpha
        /\ layers[l].texture \in DOMAIN bitmaps
        /\ bitmaps[layers[l].texture].compType = "kDirectXCompression"
        /\ bitmaps[layers[l].texture].dxt = "kDXT1"

====
